---- MODULE Spec2Model ----
(***************************************************************************)
(* A model of self2elf (src/self2elf.py): the conversion of a signed       *)
(* executable container into a plain executable image.                     *)
(*                                                                         *)
(* The input stream is a flat sequence of cells, one cell per fixed-width  *)
(* field of the container's records; record sizes are counted in cells.    *)
(* The record layouts (scetypes), the key lookup (sceutils.get_segments),  *)
(* AES-CTR and zlib are outside src/self2elf.py: they are modelled by      *)
(* what the code needs of them (a field-wise decode, a lookup result, a    *)
(* keystream XOR and a length-changing decoder that can fail).             *)
(***************************************************************************)
EXTENDS Integers, Sequences, FiniteSets, TLC

VARIABLES
    cont,            \* ghost: the container the input stream was built from
    inf,             \* the input stream's content, a sequence of cells
    pos,             \* the input stream's position
    ignore_sysver,   \* argument of self2elf
    pc,              \* position of self2elf
    err,             \* the exception that ended the conversion, or "none"
    sce, self_hdr, appinfo_hdr, verinfo_hdr,
    controlinfo_hdr, ci_off, npdrmtype,
    elf_hdr, elf_phdrs, segment_infos, encrypted, at, i,
    scesegs,
    outf,            \* the output, a sequence of cells (append-only file)
    reads,           \* history: header records read, with the position read from
    keyCalls,        \* history: the calls of sceutils.get_segments, with arguments
    segReads,        \* history: number of segment payload reads so far
    visited,         \* history: per iteration of the reconstruction loop
    emitted          \* history: per segment written to the output

vars == <<cont, inf, pos, ignore_sysver, pc, err, sce, self_hdr, appinfo_hdr,
          verinfo_hdr, controlinfo_hdr, ci_off, npdrmtype, elf_hdr, elf_phdrs,
          segment_infos, encrypted, at, i, scesegs, outf, reads, keyCalls,
          segReads, visited, emitted>>

----------------------------------------------------------------------------
(* Bounds of the model.                                                    *)

MaxPhnum == 2        \* most program headers of a generated container
MaxChain == 2        \* most records of a generated control-info chain

----------------------------------------------------------------------------
(* Record sizes, in cells, and the enumerations of scetypes.               *)

SceHeaderSize == 1
SelfHeaderSize == 6
AppInfoHeaderSize == 2
SceVersionInfoSize == 1
SceControlInfoSize == 1
SceControlInfoDigest256Size == 2
SceControlInfoDRMSize == 1
ElfHeaderSize == 4
ElfPhdrSize == 2
SegmentInfoSize == 4

DIGEST_SHA256 == 4
NPDRM_VITA == 5
SecureBoolNO == 1
SecureBoolYES == 2

MachineSentinel == 61453      \* 0xf00d

----------------------------------------------------------------------------
(* Sequences of cells.                                                     *)

Min(a, b) == IF a < b THEN a ELSE b

Zeros(n) == [k \in 1..n |-> 0]

RECURSIVE Flatten(_)
Flatten(ss) == IF ss = <<>> THEN <<>> ELSE Head(ss) \o Flatten(Tail(ss))

\* inf.seek(off); inf.read(n): the cells off .. off+n-1, fewer at end of file
Read(f, off, n) == SubSeq(f, off + 1, Min(off + n, Len(f)))

(* The record constructors of scetypes: a field-wise decode of exactly     *)
(* Size cells.  Short(dat, n) is the case where the constructor raises.    *)
Short(dat, n) == Len(dat) < n

SceHeader(dat) == [magic |-> dat[1]]

SelfHeader(dat) ==
    [appinfo_offset |-> dat[1], elf_offset |-> dat[2], phdr_offset |-> dat[3],
     segment_info_offset |-> dat[4], sceversion_offset |-> dat[5],
     controlinfo_offset |-> dat[6]]

AppInfoHeader(dat) == [sys_version |-> dat[1], self_type |-> dat[2]]

SceVersionInfo(dat) == [version |-> dat[1]]

SceControlInfo(dat) == [type |-> dat[1]]

SceControlInfoDRM(dat) == [npdrm_type |-> dat[1]]

ElfHeader(dat) ==
    [e_machine |-> dat[1], e_shoff |-> dat[2], e_phnum |-> dat[3], e_shnum |-> dat[4]]

ElfHeaderPack(h) == <<h.e_machine, h.e_shoff, h.e_phnum, h.e_shnum>>

ElfPhdr(dat) == [p_offset |-> dat[1], p_filesz |-> dat[2]]

SegmentInfo(dat) ==
    [offset |-> dat[1], size |-> dat[2], compressed |-> dat[3], plaintext |-> dat[4]]

----------------------------------------------------------------------------
(* AES-CTR and zlib.                                                       *)

RECURSIVE XorCell(_, _)
XorCell(a, b) ==
    IF a = 0 THEN b
    ELSE IF b = 0 THEN a
    ELSE ((a + b) % 2) + 2 * XorCell(a \div 2, b \div 2)

\* the keystream cell of block k under key and initial counter iv
KeyStream(key, iv, k) == (3 * key + iv + k) % 4

\* AES.new(key, MODE_CTR, counter=Counter.new(128, initial_value=iv)).decrypt(dat)
Decrypt(key, iv, dat) ==
    [k \in 1..Len(dat) |-> XorCell(dat[k], KeyStream(key, iv, k - 1))]

\* zlib: the stream is a sequence of (count, value) pairs; a stream of odd
\* length is corrupt
DecompressFails(dat) == Len(dat) % 2 = 1

RECURSIVE Decompress(_)
Decompress(dat) ==
    IF Len(dat) < 2 THEN <<>>
    ELSE [k \in 1..dat[1] |-> dat[2]] \o Decompress(SubSeq(dat, 3, Len(dat)))

----------------------------------------------------------------------------
(* Containers: what a well-formed input stream is built from.              *)

DigestRecord == [type |-> DIGEST_SHA256, body |-> <<8, 9>>]
DrmRecord(t) == [type |-> NPDRM_VITA, body |-> <<t>>]
OtherRecord == [type |-> 6, body |-> <<>>]

ChainKinds == {DigestRecord, DrmRecord(1), DrmRecord(2), OtherRecord}

Chains == UNION {[1..n -> ChainKinds] : n \in 1..MaxChain}

\* end of the program header table of an image with n program headers
TableEnd(n) == ElfHeaderSize + n * ElfPhdrSize

Seg(off, filesz, size, compressed, plaintext) ==
    [p_offset |-> off, p_filesz |-> filesz, size |-> size,
     compressed |-> compressed, plaintext |-> plaintext]

\* the segments a generated container draws from, n being its segment count
PlainSegs(n) ==
    {Seg(TableEnd(n) + d, sz, sz, SecureBoolNO, SecureBoolYES) : d \in 0..3, sz \in 1..2}

EmptySegs(n) ==
    {Seg(TableEnd(n) + d, 0, 1, SecureBoolNO, SecureBoolYES) : d \in {0, 3}}

CodedSegs(n) ==
    {Seg(TableEnd(n) + d, 2, 2, c[1], c[2]) :
        d \in {0, 2},
        c \in {<<SecureBoolNO, SecureBoolNO>>, <<SecureBoolYES, SecureBoolYES>>,
               <<SecureBoolYES, SecureBoolNO>>}}
    \cup {Seg(TableEnd(n), 2, 1, SecureBoolYES, SecureBoolYES)}

SegProfiles(n) == PlainSegs(n) \cup EmptySegs(n) \cup CodedSegs(n)

\* the stored bytes of segment k (0-based)
DataOf(k) == <<(k + 1) % 4, (k + 2) % 4>>
DataSize == Len(DataOf(0))

ChainCells(chain) == Flatten([k \in 1..Len(chain) |-> <<chain[k].type>> \o chain[k].body])

\* absolute offsets of the records of a container in its stream
AppInfoOff == SceHeaderSize + SelfHeaderSize
VersionOff == AppInfoOff + AppInfoHeaderSize
ControlOff == VersionOff + SceVersionInfoSize
ElfOff(c) == ControlOff + Len(ChainCells(c.chain))
PhdrOff(c) == ElfOff(c) + ElfHeaderSize
SegInfoOff(c) == PhdrOff(c) + Len(c.segs) * ElfPhdrSize
DataOff(c) == SegInfoOff(c) + Len(c.segs) * SegmentInfoSize

ElfHeaderCells(c) == <<c.machine, c.shoff, Len(c.segs), c.shnum>>

PhdrCells(c) == Flatten([k \in 1..Len(c.segs) |-> <<c.segs[k].p_offset, c.segs[k].p_filesz>>])

SegInfoCells(c) ==
    Flatten([k \in 1..Len(c.segs) |->
        <<DataOff(c) + (k - 1) * DataSize, c.segs[k].size,
          c.segs[k].compressed, c.segs[k].plaintext>>])

DataCells(c) == Flatten([k \in 1..Len(c.segs) |-> DataOf(k - 1)])

Build(c) ==
    <<7>>
    \o <<AppInfoOff, ElfOff(c), PhdrOff(c), SegInfoOff(c), VersionOff, ControlOff>>
    \o <<c.sysver, c.selftype>>
    \o <<1>>
    \o ChainCells(c.chain)
    \o ElfHeaderCells(c)
    \o PhdrCells(c)
    \o SegInfoCells(c)
    \o DataCells(c)

Container(chain, machine, shoff, shnum, segs) ==
    [chain |-> chain, machine |-> machine, shoff |-> shoff, shnum |-> shnum,
     sysver |-> 3, selftype |-> 1, segs |-> segs]

\* containers that vary the header chain and the executable header
HeaderContainers ==
    {Container(ch, m, so, sn, <<s>>) :
        ch \in Chains, m \in {40, MachineSentinel}, so \in {0, 9}, sn \in {0, 3},
        s \in {Seg(TableEnd(1) + 1, 2, 2, SecureBoolNO, SecureBoolYES),
               Seg(TableEnd(1), 2, 2, SecureBoolNO, SecureBoolNO)}}

\* containers that vary the segments
SegmentContainers ==
    {Container(<<DigestRecord, DrmRecord(1)>>, 40, 9, 3, ss) :
        ss \in UNION {[1..n -> SegProfiles(n)] : n \in 1..MaxPhnum}}

----------------------------------------------------------------------------
(* State after the call self2elf(inf, outf, ...) is entered.               *)

InitCommon ==
    /\ pc = "start"
    /\ err = "none"
    /\ sce = <<>> /\ self_hdr = <<>> /\ appinfo_hdr = <<>> /\ verinfo_hdr = <<>>
    /\ controlinfo_hdr = <<>> /\ ci_off = 0
    /\ npdrmtype = 0
    /\ elf_hdr = <<>> /\ elf_phdrs = <<>> /\ segment_infos = <<>>
    /\ encrypted = FALSE /\ at = 0 /\ i = 0
    /\ scesegs = <<>>
    /\ outf = <<>>
    /\ reads = <<>> /\ keyCalls = <<>> /\ segReads = 0
    /\ visited = <<>> /\ emitted = <<>>

Init ==
    /\ \/ /\ cont \in HeaderContainers
          /\ pos \in {0, 1}
          /\ ignore_sysver \in BOOLEAN
       \/ /\ cont \in SegmentContainers
          /\ pos = 0
          /\ ignore_sysver = FALSE
    /\ inf = Build(cont)
    /\ InitCommon

----------------------------------------------------------------------------
(* The header chain, lines 19-61.                                          *)

inputVars == <<cont, inf, ignore_sysver>>
chainVars == <<sce, self_hdr, appinfo_hdr, verinfo_hdr, controlinfo_hdr, ci_off, npdrmtype>>
elfVars == <<elf_hdr, elf_phdrs, segment_infos, encrypted, at, i, scesegs, outf>>
loopHist == <<keyCalls, segReads, visited, emitted>>

ReadLog(name, off) == [rec |-> name, off |-> off]

\* lines 19-22: the envelope and the loader header, read where the stream stands
ReadEnvelope ==
    /\ pc = "start"
    /\ LET d1 == Read(inf, pos, SceHeaderSize)
           d2 == Read(inf, pos + Len(d1), SelfHeaderSize)
       IN IF Short(d1, SceHeaderSize)
          THEN /\ pc' = "error" /\ err' = "FormatError"
               /\ pos' = pos + Len(d1)
               /\ reads' = Append(reads, ReadLog("SceHeader", pos))
               /\ UNCHANGED <<sce, self_hdr>>
          ELSE /\ sce' = SceHeader(d1)
               /\ pos' = pos + Len(d1) + Len(d2)
               /\ reads' = reads \o <<ReadLog("SceHeader", pos),
                                      ReadLog("SelfHeader", pos + Len(d1))>>
               /\ IF Short(d2, SelfHeaderSize)
                  THEN pc' = "error" /\ err' = "FormatError" /\ UNCHANGED self_hdr
                  ELSE pc' = "appinfo" /\ self_hdr' = SelfHeader(d2) /\ UNCHANGED err
    /\ UNCHANGED <<inputVars, appinfo_hdr, verinfo_hdr, controlinfo_hdr, ci_off,
                   npdrmtype, elfVars, loopHist>>

\* lines 26-27
OverrideSysver(h) == IF ignore_sysver THEN [h EXCEPT !.sys_version = -1] ELSE h

\* lines 24-29
ReadAppInfo ==
    /\ pc = "appinfo"
    /\ LET off == self_hdr.appinfo_offset
           dat == Read(inf, off, AppInfoHeaderSize)
       IN /\ pos' = off + Len(dat)
          /\ reads' = Append(reads, ReadLog("AppInfoHeader", off))
          /\ IF Short(dat, AppInfoHeaderSize)
             THEN pc' = "error" /\ err' = "FormatError" /\ UNCHANGED appinfo_hdr
             ELSE /\ pc' = "verinfo"
                  /\ appinfo_hdr' = OverrideSysver(AppInfoHeader(dat))
                  /\ UNCHANGED err
    /\ UNCHANGED <<inputVars, sce, self_hdr, verinfo_hdr, controlinfo_hdr, ci_off,
                   npdrmtype, elfVars, loopHist>>

\* lines 31-34
ReadVersionInfo ==
    /\ pc = "verinfo"
    /\ LET off == self_hdr.sceversion_offset
           dat == Read(inf, off, SceVersionInfoSize)
       IN /\ pos' = off + Len(dat)
          /\ reads' = Append(reads, ReadLog("SceVersionInfo", off))
          /\ IF Short(dat, SceVersionInfoSize)
             THEN pc' = "error" /\ err' = "FormatError" /\ UNCHANGED verinfo_hdr
             ELSE pc' = "control1" /\ verinfo_hdr' = SceVersionInfo(dat) /\ UNCHANGED err
    /\ UNCHANGED <<inputVars, sce, self_hdr, appinfo_hdr, controlinfo_hdr, ci_off,
                   npdrmtype, elfVars, loopHist>>

\* lines 42-44: the offset advances over a digest sub-record only
DigestAdvanceAlways(type) == SceControlInfoDigest256Size
DigestAdvance(type) == IF type = DIGEST_SHA256 THEN SceControlInfoDigest256Size ELSE 0

\* lines 36-47: the first control-info header and the digest that may follow it
ReadControlInfo ==
    /\ pc = "control1"
    /\ LET off == self_hdr.controlinfo_offset
           dat == Read(inf, off, SceControlInfoSize)
           hdr == SceControlInfo(dat)
           dig == Read(inf, off + SceControlInfoSize, SceControlInfoDigest256Size)
       IN IF Short(dat, SceControlInfoSize)
          THEN /\ pc' = "error" /\ err' = "FormatError"
               /\ pos' = off + Len(dat)
               /\ reads' = Append(reads, ReadLog("SceControlInfo", off))
               /\ UNCHANGED <<controlinfo_hdr, ci_off>>
          ELSE /\ controlinfo_hdr' = hdr
               /\ ci_off' = SceControlInfoSize + DigestAdvance(hdr.type)
               /\ IF DigestAdvance(hdr.type) > 0
                  THEN /\ pos' = off + SceControlInfoSize + Len(dig)
                       /\ reads' = reads \o
                            <<ReadLog("SceControlInfo", off),
                              ReadLog("SceControlInfoDigest256", off + SceControlInfoSize)>>
                       /\ IF Short(dig, SceControlInfoDigest256Size)
                          THEN pc' = "error" /\ err' = "FormatError"
                          ELSE pc' = "control2" /\ UNCHANGED err
                  ELSE /\ pos' = off + Len(dat)
                       /\ reads' = Append(reads, ReadLog("SceControlInfo", off))
                       /\ pc' = "control2" /\ UNCHANGED err
    /\ UNCHANGED <<inputVars, sce, self_hdr, appinfo_hdr, verinfo_hdr, npdrmtype,
                   elfVars, loopHist>>

\* line 55
IsDrm(hdr) == hdr.type = NPDRM_VITA

\* lines 49-61: the second control-info header and the DRM record that may follow it
ReadControlInfoDRM ==
    /\ pc = "control2"
    /\ LET off == self_hdr.controlinfo_offset + ci_off
           dat == Read(inf, off, SceControlInfoSize)
           hdr == SceControlInfo(dat)
           drm == Read(inf, off + SceControlInfoSize, SceControlInfoDRMSize)
       IN IF Short(dat, SceControlInfoSize)
          THEN /\ pc' = "error" /\ err' = "FormatError"
               /\ pos' = off + Len(dat)
               /\ reads' = Append(reads, ReadLog("SceControlInfo", off))
               /\ UNCHANGED <<controlinfo_hdr, ci_off, npdrmtype>>
          ELSE /\ controlinfo_hdr' = hdr
               /\ IF IsDrm(hdr)
                  THEN /\ ci_off' = ci_off + SceControlInfoSize + SceControlInfoDRMSize
                       /\ pos' = off + SceControlInfoSize + Len(drm)
                       /\ reads' = reads \o
                            <<ReadLog("SceControlInfo", off),
                              ReadLog("SceControlInfoDRM", off + SceControlInfoSize)>>
                       /\ IF Short(drm, SceControlInfoDRMSize)
                          THEN pc' = "error" /\ err' = "FormatError" /\ UNCHANGED npdrmtype
                          ELSE /\ pc' = "elf" /\ UNCHANGED err
                               /\ npdrmtype' = SceControlInfoDRM(drm).npdrm_type
                  ELSE /\ ci_off' = ci_off + SceControlInfoSize
                       /\ pos' = off + Len(dat)
                       /\ reads' = Append(reads, ReadLog("SceControlInfo", off))
                       /\ pc' = "elf" /\ UNCHANGED <<err, npdrmtype>>
    /\ UNCHANGED <<inputVars, sce, self_hdr, appinfo_hdr, verinfo_hdr, elfVars, loopHist>>

----------------------------------------------------------------------------
(* The executable header and the tables, lines 63-104.                     *)

\* lines 69-71: an executable that omits section headers
AdjustElfHeaderShnumOnly(h) ==
    IF h.e_machine = MachineSentinel THEN [h EXCEPT !.e_shnum = 0] ELSE h
AdjustElfHeader(h) ==
    IF h.e_machine = MachineSentinel THEN [h EXCEPT !.e_shnum = 0, !.e_shoff = 0] ELSE h

\* lines 63-78
CopyElfHeader ==
    /\ pc = "elf"
    /\ LET off == self_hdr.elf_offset
           dat == Read(inf, off, ElfHeaderSize)
       IN /\ pos' = off + Len(dat)
          /\ reads' = Append(reads, ReadLog("ElfHeader", off))
          /\ IF Short(dat, ElfHeaderSize)
             THEN /\ pc' = "error" /\ err' = "FormatError"
                  /\ UNCHANGED <<elf_hdr, outf, at>>
             ELSE /\ pc' = "phdrs" /\ UNCHANGED err
                  /\ elf_hdr' = AdjustElfHeader(ElfHeader(dat))
                  /\ outf' = outf \o ElfHeaderPack(AdjustElfHeader(ElfHeader(dat)))
                  /\ at' = ElfHeaderSize
    /\ i' = 0
    /\ elf_phdrs' = <<>> /\ segment_infos' = <<>> /\ encrypted' = FALSE
    /\ UNCHANGED <<inputVars, chainVars, scesegs, loopHist>>

\* dict assignment d[k] = v, keys 0 .. k
Put(d, k, v) == [j \in (DOMAIN d) \cup {k} |-> IF j = k THEN v ELSE d[j]]

\* lines 98-99
MarksEncryptedAlways(info) == TRUE
MarksEncrypted(info) == info.plaintext = SecureBoolNO

\* lines 79-99: one iteration, program header i and segment info i
ReadPhdr ==
    /\ pc = "phdrs"
    /\ i < elf_hdr.e_phnum
    /\ LET poff == self_hdr.phdr_offset + i * ElfPhdrSize
           dat == Read(inf, poff, ElfPhdrSize)
           soff == self_hdr.segment_info_offset + i * SegmentInfoSize
           sdat == Read(inf, soff, SegmentInfoSize)
       IN IF Short(dat, ElfPhdrSize)
          THEN /\ pc' = "error" /\ err' = "FormatError"
               /\ pos' = poff + Len(dat)
               /\ reads' = Append(reads, ReadLog("ElfPhdr", poff))
               /\ UNCHANGED <<elf_phdrs, segment_infos, encrypted, at, i, outf>>
          ELSE /\ elf_phdrs' = Put(elf_phdrs, i, ElfPhdr(dat))
               /\ outf' = outf \o dat
               /\ at' = at + ElfPhdrSize
               /\ pos' = soff + Len(sdat)
               /\ reads' = reads \o <<ReadLog("ElfPhdr", poff), ReadLog("SegmentInfo", soff)>>
               /\ IF Short(sdat, SegmentInfoSize)
                  THEN /\ pc' = "error" /\ err' = "FormatError"
                       /\ UNCHANGED <<segment_infos, encrypted, i>>
                  ELSE /\ segment_infos' = Put(segment_infos, i, SegmentInfo(sdat))
                       /\ encrypted' = (encrypted \/ MarksEncrypted(SegmentInfo(sdat)))
                       /\ i' = i + 1
                       /\ UNCHANGED <<pc, err>>
    /\ UNCHANGED <<inputVars, chainVars, elf_hdr, scesegs, loopHist>>

(* sceutils.get_segments: per entry a key, an initial counter and the      *)
(* index idx of the segment the entry belongs to.                          *)
KeyOf(k) == k + 1
IvOf(k) == 2 * k + 1

IdxMaps(n) ==
    {m \in [0..(n - 1) -> 0..(n - 1)] :
        \/ \A a, b \in 0..(n - 1) : m[a] = m[b] => a = b
        \/ \A a \in 0..(n - 1) : m[a] = 0}

KeyResults(n) ==
    {<<>>} \cup
    {[k \in 0..(n - 1) |-> [idx |-> m[k], key |-> KeyOf(k), iv |-> IvOf(k)]] : m \in IdxMaps(n)}

KeyCall == [sys_version |-> appinfo_hdr.sys_version, self_type |-> appinfo_hdr.self_type,
            npdrmtype |-> npdrmtype, sce |-> sce, segReads |-> segReads]

\* lines 100-104, the lookup succeeding
GetKeys ==
    /\ pc = "phdrs"
    /\ i = elf_hdr.e_phnum
    /\ IF encrypted
       THEN /\ scesegs' \in KeyResults(elf_hdr.e_phnum)
            /\ keyCalls' = Append(keyCalls, KeyCall)
       ELSE /\ scesegs' = <<>>
            /\ UNCHANGED keyCalls
    /\ pc' = "generate"
    /\ i' = 0
    /\ UNCHANGED <<inputVars, pos, err, chainVars, elf_hdr, elf_phdrs, segment_infos,
                   encrypted, at, outf, reads, segReads, visited, emitted>>

\* line 102, the lookup raising
GetKeysFails ==
    /\ pc = "phdrs"
    /\ i = elf_hdr.e_phnum
    /\ encrypted
    /\ keyCalls' = Append(keyCalls, KeyCall)
    /\ pc' = "error" /\ err' = "KeyResolutionError"
    /\ UNCHANGED <<inputVars, pos, chainVars, elfVars, reads, segReads, visited, emitted>>

----------------------------------------------------------------------------
(* The reconstruction loop, lines 106-142.                                 *)

\* lines 107-110
ResolveIdxIdentity(segs, k) == k
ResolveIdx(segs, k) == IF segs # <<>> THEN segs[k].idx ELSE k

\* lines 126-127, 130, 136: the segment info an iteration consults
SegInfoIndexByEntry(k, idx) == k
SegInfoIndex(k, idx) == idx

\* line 118
PadLenFromStart(phdr, cursor) == phdr.p_offset
PadLen(phdr, cursor) == phdr.p_offset - cursor

\* line 119
PadInvalidNever(pad) == FALSE
PadInvalid(pad) == pad < 0

\* line 130
NeedsDecrypt(info) == info.plaintext = SecureBoolNO

\* line 136
NeedsDecompress(info) == info.compressed = SecureBoolYES

\* lines 130-133
Decipher(info, entry, dat) ==
    IF NeedsDecrypt(info) THEN Decrypt(entry.key, entry.iv, dat) ELSE dat

\* lines 136-138
Inflate(info, dat) == IF NeedsDecompress(info) THEN Decompress(dat) ELSE dat

\* lines 130-138: decryption, then decompression
PayloadInflateFirst(info, entry, dat) == Decipher(info, entry, Inflate(info, dat))
Payload(info, entry, dat) == Inflate(info, Decipher(info, entry, dat))

\* lines 123 and 142
AdvanceCursorStuck(cursor, n) == cursor
AdvanceCursor(cursor, n) == cursor + n

\* the state an iteration of the loop starts from
InLoop == pc = "generate" /\ i < elf_hdr.e_phnum

idx == ResolveIdx(scesegs, i)
curPhdr == elf_phdrs[idx]
curInfo == segment_infos[SegInfoIndex(i, idx)]
curRaw == Read(inf, curInfo.offset, curInfo.size)
curPad == PadLen(curPhdr, at)
NoEntry == [idx |-> -1, key |-> 0, iv |-> 0]
curEntry == IF i \in DOMAIN scesegs THEN scesegs[i] ELSE NoEntry

Visit(skipped) ==
    [i |-> i, idx |-> idx, skipped |-> skipped, at |-> at, out |-> Len(outf),
     segReads |-> segReads]

\* lines 112-113: nothing to place
SkipSegment ==
    /\ InLoop
    /\ curPhdr.p_filesz = 0
    /\ i' = i + 1
    /\ visited' = Append(visited, Visit(TRUE))
    /\ UNCHANGED <<inputVars, pos, pc, err, chainVars, elf_hdr, elf_phdrs, segment_infos,
                   encrypted, at, scesegs, outf, reads, keyCalls, segReads, emitted>>

\* lines 118-121: the program header's offset lies before the cursor
RejectOffset ==
    /\ InLoop
    /\ curPhdr.p_filesz # 0
    /\ PadInvalid(curPad)
    /\ pc' = "error" /\ err' = "RuntimeError"
    /\ visited' = Append(visited, Visit(FALSE))
    /\ UNCHANGED <<inputVars, pos, chainVars, elfVars, reads, keyCalls, segReads, emitted>>

\* lines 122-127: the padding is written and the stored bytes are read
Padded ==
    /\ InLoop
    /\ curPhdr.p_filesz # 0
    /\ ~PadInvalid(curPad)

\* lines 131-132 with no entry i in the key material: padding written, then KeyError
MissingKey ==
    /\ Padded
    /\ NeedsDecrypt(curInfo)
    /\ i \notin DOMAIN scesegs
    /\ outf' = outf \o Zeros(curPad)
    /\ at' = AdvanceCursor(at, curPad)
    /\ pos' = curInfo.offset + Len(curRaw)
    /\ segReads' = segReads + 1
    /\ pc' = "error" /\ err' = "KeyError"
    /\ visited' = Append(visited, Visit(FALSE))
    /\ UNCHANGED <<inputVars, chainVars, elf_hdr, elf_phdrs, segment_infos, encrypted, i,
                   scesegs, reads, keyCalls, emitted>>

\* line 138 raising on a corrupt stream: padding written, then zlib.error
CorruptPayload ==
    /\ Padded
    /\ NeedsDecrypt(curInfo) => i \in DOMAIN scesegs
    /\ NeedsDecompress(curInfo)
    /\ DecompressFails(Decipher(curInfo, curEntry, curRaw))
    /\ outf' = outf \o Zeros(curPad)
    /\ at' = AdvanceCursor(at, curPad)
    /\ pos' = curInfo.offset + Len(curRaw)
    /\ segReads' = segReads + 1
    /\ pc' = "error" /\ err' = "zlib.error"
    /\ visited' = Append(visited, Visit(FALSE))
    /\ UNCHANGED <<inputVars, chainVars, elf_hdr, elf_phdrs, segment_infos, encrypted, i,
                   scesegs, reads, keyCalls, emitted>>

\* lines 116-142: padding, then the decrypted and decompressed bytes
EmitSegment ==
    /\ Padded
    /\ NeedsDecrypt(curInfo) => i \in DOMAIN scesegs
    /\ NeedsDecompress(curInfo) => ~DecompressFails(Decipher(curInfo, curEntry, curRaw))
    /\ LET dat == Payload(curInfo, curEntry, curRaw)
       IN /\ outf' = outf \o Zeros(curPad) \o dat
          /\ at' = AdvanceCursor(AdvanceCursor(at, curPad), Len(dat))
          /\ emitted' = Append(emitted,
                [i |-> i, idx |-> idx, pad |-> curPad, start |-> Len(outf) + Len(Zeros(curPad)),
                 info |-> curInfo, raw |-> curRaw, dat |-> dat])
    /\ pos' = curInfo.offset + Len(curRaw)
    /\ segReads' = segReads + 1
    /\ i' = i + 1
    /\ visited' = Append(visited, Visit(FALSE))
    /\ UNCHANGED <<inputVars, pc, err, chainVars, elf_hdr, elf_phdrs, segment_infos,
                   encrypted, scesegs, reads, keyCalls>>

\* the loop of line 106 is exhausted and self2elf returns
Finish ==
    /\ pc = "generate"
    /\ i = elf_hdr.e_phnum
    /\ pc' = "done"
    /\ UNCHANGED <<inputVars, pos, err, chainVars, elfVars, reads, loopHist>>

Next ==
    \/ ReadEnvelope
    \/ ReadAppInfo
    \/ ReadVersionInfo
    \/ ReadControlInfo
    \/ ReadControlInfoDRM
    \/ CopyElfHeader
    \/ ReadPhdr
    \/ GetKeys
    \/ GetKeysFails
    \/ SkipSegment
    \/ RejectOffset
    \/ MissingKey
    \/ CorruptPayload
    \/ EmitSegment
    \/ Finish

Spec == Init /\ [][Next]_vars

----------------------------------------------------------------------------
(* Properties.                                                             *)

\* the stream stood at offset 0 when self2elf was entered
FromStart == reads # <<>> => reads[1].off = 0

Converted == pc = "done"

\* the index the loop resolves for key-material entry k
EntryIdx(k) == IF scesegs # <<>> THEN scesegs[k].idx ELSE k

IsPermutation(segs) ==
    /\ segs # <<>>
    /\ \A p \in DOMAIN segs : \E k \in DOMAIN segs : segs[k].idx = p

(* C1, as claimed: the program-header indices the reconstruction loop      *)
(* visits are 0, 1, ..., count-1 in ascending order, whatever the key      *)
(* material's order.                                                       *)
C1_PhdrIndicesAscending ==
    FromStart => \A k \in 1..Len(visited) : visited[k].idx = k - 1

(* C1, amended: the loop counter i runs 0, 1, ... ascending over the       *)
(* key-material entries; the program header visited at iteration i is the  *)
(* one at scesegs[i].idx (at i when there is no key material); when the    *)
(* conversion completes every i in 0..count-1 was visited, and if the idx  *)
(* values form a permutation every program header was visited exactly once.*)
C1_LoopOrder ==
    /\ \A k \in 1..Len(visited) :
          visited[k].i = k - 1 /\ visited[k].idx = EntryIdx(k - 1)
    /\ Converted => Len(visited) = elf_hdr.e_phnum
    /\ (Converted /\ IsPermutation(scesegs)) =>
          \A p \in 0..(elf_hdr.e_phnum - 1) :
              Cardinality({k \in 1..Len(visited) : visited[k].idx = p}) = 1

C1_Witness ==
    /\ Converted /\ IsPermutation(scesegs)
    /\ \E k \in 1..Len(visited) : visited[k].idx # visited[k].i

(* C2: an iteration that is not skipped and finds the program header's     *)
(* file offset before the cursor ends the conversion with an error and     *)
(* writes nothing, neither padding nor payload, for it or any later        *)
(* segment; every segment that was written had a padding >= 0.             *)
C2_NegativePadIsFatal ==
    /\ \A k \in 1..Len(visited) :
          (~visited[k].skipped /\ elf_phdrs[visited[k].idx].p_offset < visited[k].at) =>
              /\ k = Len(visited)
              /\ pc = "error" /\ err = "RuntimeError"
              /\ Len(outf) = visited[k].out
              /\ segReads = visited[k].segReads
    /\ \A k \in 1..Len(emitted) : emitted[k].pad >= 0
    /\ Converted =>
          \A k \in 1..Len(visited) :
              visited[k].skipped \/ elf_phdrs[visited[k].idx].p_offset >= visited[k].at

C2_Witness ==
    /\ err = "RuntimeError"
    /\ Len(emitted) >= 1
    /\ elf_phdrs[visited[Len(visited)].idx].p_offset < at

(* C3: sceutils.get_segments is called at most once, only when some        *)
(* segment info is not plaintext, and before any segment's bytes are read; *)
(* for a container whose segment infos are all plaintext it is never       *)
(* called and the loop uses idx = i.                                       *)
SomeEncrypted == \E k \in DOMAIN segment_infos : segment_infos[k].plaintext = SecureBoolNO

C3_KeyLookupOnce ==
    /\ Len(keyCalls) <= 1
    /\ \A c \in 1..Len(keyCalls) : SomeEncrypted /\ keyCalls[c].segReads = 0
    /\ (segReads > 0 /\ SomeEncrypted) => Len(keyCalls) = 1
    /\ (pc \in {"generate", "done"} /\ ~SomeEncrypted) =>
          /\ keyCalls = <<>>
          /\ \A k \in 1..Len(visited) : visited[k].idx = visited[k].i

C3_Witness ==
    /\ Converted
    /\ Len(keyCalls) = 1
    /\ segReads >= 2

(* C4.  A plaintext, uncompressed container with valid offsets: every      *)
(* segment is stored as is, its segment-info size is its program header's  *)
(* file size, and the file offsets ascend without overlap from the end of  *)
(* the program header table.                                               *)
RECURSIVE OffsetsValid(_, _)
OffsetsValid(segs, floor) ==
    \/ segs = <<>>
    \/ /\ Head(segs).p_offset >= floor
       /\ OffsetsValid(Tail(segs), Head(segs).p_offset + Head(segs).p_filesz)

ValidPlain(c) ==
    /\ \A k \in 1..Len(c.segs) :
          /\ c.segs[k].plaintext = SecureBoolYES
          /\ c.segs[k].compressed = SecureBoolNO
          /\ c.segs[k].size = c.segs[k].p_filesz
    /\ OffsetsValid(c.segs, TableEnd(Len(c.segs)))

\* the segments of an executable image: each segment that has bytes, after
\* zero padding from the cursor up to its file offset
RECURSIVE SegmentBytes(_, _, _)
SegmentBytes(segs, k, cursor) ==
    IF k > Len(segs) THEN <<>>
    ELSE IF segs[k].p_filesz = 0 THEN SegmentBytes(segs, k + 1, cursor)
    ELSE Zeros(segs[k].p_offset - cursor)
         \o SubSeq(DataOf(k - 1), 1, segs[k].p_filesz)
         \o SegmentBytes(segs, k + 1, segs[k].p_offset + segs[k].p_filesz)

\* the executable header as the container embeds it
EmbeddedHeader(c) == ElfHeaderCells(c)

\* the executable header with the section-header fields of a 0xF00D image zeroed
WrittenHeader(c) ==
    IF c.machine = MachineSentinel
    THEN <<c.machine, 0, Len(c.segs), 0>>
    ELSE ElfHeaderCells(c)

(* C4, as claimed: the output of a valid plaintext, uncompressed container *)
(* is the embedded executable header, the program header table and the     *)
(* padded segments, byte for byte.                                         *)
C4_RoundTripVerbatim ==
    (FromStart /\ ValidPlain(cont)) =>
        /\ pc # "error"
        /\ Converted =>
              outf = EmbeddedHeader(cont) \o PhdrCells(cont)
                     \o SegmentBytes(cont.segs, 1, TableEnd(Len(cont.segs)))

(* C4, amended: the output of a valid plaintext, uncompressed container is *)
(* the executable header (with section-header count and offset zeroed when *)
(* the machine type is 0xF00D), the program header table verbatim, and for *)
(* each segment of non-zero file size zero padding up to its file offset   *)
(* followed by its bytes; the conversion never fails.                      *)
C4_RoundTrip ==
    (FromStart /\ ValidPlain(cont)) =>
        /\ pc # "error"
        /\ Converted =>
              outf = WrittenHeader(cont) \o PhdrCells(cont)
                     \o SegmentBytes(cont.segs, 1, TableEnd(Len(cont.segs)))

C4_Witness ==
    /\ Converted /\ FromStart /\ ValidPlain(cont)
    /\ Len(emitted) = 2
    /\ emitted[2].pad > 0

(* C5.  The DRM records of the control-info chain.                         *)
DrmTypes(chain) == {chain[k].body[1] : k \in {j \in 1..Len(chain) : chain[j].type = NPDRM_VITA}}

(* C5, as claimed: whenever the chain contains a DRM control record the    *)
(* DRM type passed to the key lookup is that record's npdrm_type, and 0 is *)
(* passed only when the chain contains no DRM control record.              *)
C5_DrmAlwaysFound ==
    FromStart =>
        \A c \in 1..Len(keyCalls) :
            /\ DrmTypes(cont.chain) # {} => keyCalls[c].npdrmtype \in DrmTypes(cont.chain)
            /\ keyCalls[c].npdrmtype = 0 => DrmTypes(cont.chain) = {}

\* the position of the second control-info header: after the first header,
\* and after the digest only if the first header is tagged as one
SecondHeaderOff ==
    self_hdr.controlinfo_offset + SceControlInfoSize
    + (IF Read(inf, self_hdr.controlinfo_offset, SceControlInfoSize) = <<DIGEST_SHA256>>
       THEN SceControlInfoDigest256Size ELSE 0)

(* C5, amended: the second control-info header is read right after the     *)
(* first header, and after the digest sub-record only when the first       *)
(* header's tag is the digest type; the DRM type passed to the key lookup  *)
(* is the npdrm_type of the sub-record following that second header when   *)
(* its tag is the DRM type, and 0 otherwise.  So a DRM record that follows *)
(* a digest record or a body-less header of another type is found.         *)
C5_DrmSlot ==
    /\ \A c \in 1..Len(keyCalls) :
          keyCalls[c].npdrmtype =
              IF Read(inf, SecondHeaderOff, SceControlInfoSize) = <<NPDRM_VITA>>
              THEN Read(inf, SecondHeaderOff + SceControlInfoSize, SceControlInfoDRMSize)[1]
              ELSE 0
    /\ FromStart =>
          \A c \in 1..Len(keyCalls) :
              (/\ Len(cont.chain) >= 2
               /\ cont.chain[1].type # NPDRM_VITA
               /\ cont.chain[2].type = NPDRM_VITA) =>
                  keyCalls[c].npdrmtype = cont.chain[2].body[1]

C5_Witness ==
    /\ FromStart /\ keyCalls # <<>>
    /\ Len(cont.chain) >= 2
    /\ cont.chain[1] = OtherRecord
    /\ cont.chain[2].type = NPDRM_VITA
    /\ keyCalls[1].npdrmtype = cont.chain[2].body[1]
    /\ ci_off = 2 * SceControlInfoSize + SceControlInfoDRMSize

(* C6: the envelope header and the loader header are read at their         *)
(* offsets, 0 and the envelope's size, wherever the stream stood when the  *)
(* conversion began, so the headers parsed do not depend on that position. *)
C6_HeadersReadAtTheirOffsets ==
    /\ \A k \in 1..Len(reads) :
          /\ reads[k].rec = "SceHeader" => reads[k].off = 0
          /\ reads[k].rec = "SelfHeader" => reads[k].off = SceHeaderSize
    /\ self_hdr # <<>> => self_hdr = SelfHeader(Read(inf, SceHeaderSize, SelfHeaderSize))

(* C7: with machine type 0xF00D in the embedded executable header the      *)
(* header written has section-header count and offset zero; with any other *)
(* machine type both are written as they were read.                        *)
C7_Sentinel ==
    outf # <<>> =>
        LET embedded == ElfHeader(Read(inf, self_hdr.elf_offset, ElfHeaderSize))
            written == ElfHeader(SubSeq(outf, 1, ElfHeaderSize))
        IN IF embedded.e_machine = MachineSentinel
           THEN written.e_shnum = 0 /\ written.e_shoff = 0
           ELSE written.e_shnum = embedded.e_shnum /\ written.e_shoff = embedded.e_shoff

C7_Witness ==
    /\ outf # <<>>
    /\ FromStart
    /\ cont.machine = MachineSentinel /\ cont.shnum # 0 /\ cont.shoff # 0
    /\ ElfHeader(SubSeq(outf, 1, ElfHeaderSize)).e_shnum = 0

\* the bytes the output holds where a segment was written
Placed(e) == SubSeq(outf, e.start + 1, e.start + Len(e.dat))

\* decryption under the key and counter of key-material entry k
DecryptedBy(k, dat) == Decrypt(scesegs[k].key, scesegs[k].iv, dat)

(* C8: the payload written for a segment is the stored bytes, decrypted    *)
(* only if its segment info says not plaintext, then decompressed only if  *)
(* it says compressed; a plaintext, uncompressed segment is written as     *)
(* read.                                                                   *)
C8_DecryptThenDecompress ==
    \A k \in 1..Len(emitted) :
        LET e == emitted[k]
            stored == Read(inf, e.info.offset, e.info.size)
            clear == IF e.info.plaintext = SecureBoolNO THEN DecryptedBy(e.i, stored) ELSE stored
            body == IF e.info.compressed = SecureBoolYES THEN Decompress(clear) ELSE clear
        IN /\ e.dat = body
           /\ Placed(e) = body
           /\ (e.info.plaintext # SecureBoolNO /\ e.info.compressed # SecureBoolYES) =>
                  Placed(e) = stored

C8_Witness ==
    /\ Converted
    /\ \E k \in 1..Len(emitted) :
          /\ emitted[k].info.plaintext = SecureBoolNO
          /\ emitted[k].info.compressed = SecureBoolYES
          /\ emitted[k].dat # emitted[k].raw
          /\ emitted[k].dat # <<>>

(* C9, as claimed: the segment info consulted for a segment is the one at  *)
(* the index of the key-material entry that decrypts it, the program       *)
(* header the one at that entry's idx.                                     *)
C9_SegInfoByEntry ==
    FromStart =>
        \A k \in 1..Len(emitted) :
            LET e == emitted[k]
            IN /\ e.info = segment_infos[e.i]
               /\ e.start = elf_phdrs[EntryIdx(e.i)].p_offset

(* C9, amended: the segment info and the program header consulted for a    *)
(* segment are both the ones at idx, the idx field of key-material entry i *)
(* (i itself without key material), so the two are always at the same      *)
(* index; only the key and counter come from entry i, whose index may      *)
(* differ from idx.                                                        *)
C9_SegInfoByIdx ==
    \A k \in 1..Len(emitted) :
        LET e == emitted[k]
            info == segment_infos[EntryIdx(e.i)]
            stored == Read(inf, info.offset, info.size)
            clear == IF info.plaintext = SecureBoolNO THEN DecryptedBy(e.i, stored) ELSE stored
        IN /\ e.info = info
           /\ e.start = elf_phdrs[EntryIdx(e.i)].p_offset
           /\ Placed(e) = IF info.compressed = SecureBoolYES THEN Decompress(clear) ELSE clear

C9_Witness ==
    /\ Converted
    /\ \E k \in 1..Len(emitted) :
          /\ emitted[k].idx # emitted[k].i
          /\ emitted[k].info.plaintext = SecureBoolNO
          /\ segment_infos[emitted[k].i] # segment_infos[emitted[k].idx]

(* C10: once the executable header is written the cursor is the number of  *)
(* bytes written; what was written stays where it was written, so every    *)
(* payload begins at its program header's file offset; a skipped iteration *)
(* writes nothing, reads no segment data and leaves the cursor unchanged.  *)
C10_Cursor ==
    /\ outf # <<>> => at = Len(outf)
    /\ \A k \in 1..Len(emitted) :
          /\ emitted[k].start = elf_phdrs[emitted[k].idx].p_offset
          /\ Placed(emitted[k]) = emitted[k].dat
    /\ \A k \in 1..Len(visited) :
          /\ visited[k].at = visited[k].out
          /\ visited[k].skipped =>
                LET after == IF k < Len(visited)
                             THEN visited[k + 1]
                             ELSE [at |-> at, out |-> Len(outf), segReads |-> segReads]
                IN /\ after.at = visited[k].at
                   /\ after.out = visited[k].out
                   /\ after.segReads = visited[k].segReads
    /\ \A k \in 1..(Len(visited) - 1) : visited[k].out <= visited[k + 1].out

C10_Witness ==
    /\ Converted
    /\ Len(emitted) >= 1
    /\ \E k \in 1..Len(visited) :
          /\ visited[k].skipped
          /\ elf_phdrs[visited[k].idx].p_offset < visited[k].at

====
